---- MODULE Spec2Model ----
(***************************************************************************)
(* The remote-backed output / checkpoint lifecycle of run_translation.py:  *)
(* workspace acquisition (lines 438-452), resume detection (454-465), the  *)
(* job body (467-854) with local checkpoint pruning (788-792), and the     *)
(* finally block (855-862) that pre-prunes remote checkpoints, uploads the *)
(* workspace and removes the ephemeral directory.                          *)
(*                                                                         *)
(* Strings are sequences of one-character strings, so that slicing,       *)
(* startswith and urlparse are computed as the code computes them.         *)
(***************************************************************************)
EXTENDS Naturals, Sequences, FiniteSets

(***************************************************************************)
(* Bounds of the model.                                                    *)
(***************************************************************************)
\* the trainer writes at most MaxStep checkpoints
MaxStep == 2

\* the trainer writes a checkpoint every SaveSteps steps
SaveSteps == 5

\* a list of targets handed to make_absolute has at most MaxTargets elements
MaxTargets == 2

\* the number of cooperating processes (ranks) that run main()
NumRanks == 2

\* Python's None, as a value no string of characters equals
None == <<"None">>

(***************************************************************************)
(* String helpers (Python str operations used by the code).                *)
(***************************************************************************)
\* s.startswith(p)
StartsWith(s, p) == Len(s) >= Len(p) /\ SubSeq(s, 1, Len(p)) = p

\* s[n:]
Drop(s, n) == SubSeq(s, n + 1, Len(s))

\* s[:n]
Take(s, n) == SubSeq(s, 1, n)

\* s.rstrip("/") for at most one trailing slash
StripSlash(s) == IF Len(s) > 0 /\ s[Len(s)] = "/" THEN Take(s, Len(s) - 1) ELSE s

DigitChars == <<"0", "1", "2", "3", "4", "5", "6", "7", "8", "9">>

IsDigit(c) == \E i \in 1..10 : DigitChars[i] = c

DigitValue(c) == (CHOOSE i \in 1..10 : DigitChars[i] = c) - 1

\* str(n) for a natural number
RECURSIVE ToStr(_)
ToStr(n) == IF n < 10 THEN <<DigitChars[n + 1]>>
            ELSE ToStr(n \div 10) \o <<DigitChars[(n % 10) + 1]>>

\* int(s) for a non-empty string of digits
RECURSIVE ParseInt(_)
ParseInt(s) == IF Len(s) = 0 THEN 0
               ELSE 10 * ParseInt(Take(s, Len(s) - 1)) + DigitValue(s[Len(s)])

\* index of the first occurrence of p in s at or after position i, 0 if none
RECURSIVE FindFrom(_, _, _)
FindFrom(s, p, i) == IF i + Len(p) - 1 > Len(s) THEN 0
                     ELSE IF SubSeq(s, i, i + Len(p) - 1) = p THEN i
                     ELSE FindFrom(s, p, i + 1)

\* s.rfind(p) + 1: the index of the last occurrence of the character p, 0 if none
RECURSIVE RFind(_, _)
RFind(s, p) == IF Len(s) = 0 THEN 0
               ELSE IF s[Len(s)] = p THEN Len(s)
               ELSE RFind(Take(s, Len(s) - 1), p)

AlphaChars ==
    {"a", "b", "c", "d", "e", "f", "g", "h", "i", "j", "k", "l", "m", "n", "o", "p",
     "q", "r", "s", "t", "u", "v", "w", "x", "y", "z", "A", "B", "C", "D", "E", "F",
     "G", "H", "I", "J", "K", "L", "M", "N", "O", "P", "Q", "R", "S", "T", "U", "V",
     "W", "X", "Y", "Z"}

\* urllib.parse.scheme_chars
SchemeChars == AlphaChars \cup {DigitChars[i] : i \in 1..10} \cup {"+", "-", "."}

\* urllib.parse.urlparse(url): the scheme is the text before the first ":" when
\* it starts with a letter and holds scheme characters only; a netloc follows
\* "//" and ends at the next "/"; the rest is the path
urlparse(url) ==
    LET i == FindFrom(url, <<":">>, 1)
        hasScheme == /\ i > 1
                     /\ url[1] \in AlphaChars
                     /\ \A k \in 1..(i - 1) : url[k] \in SchemeChars
        rest == IF hasScheme THEN Drop(url, i) ELSE url
        hasNetloc == StartsWith(rest, <<"/", "/">>)
        tail == Drop(rest, 2)
        j == FindFrom(tail, <<"/">>, 1)
    IN [scheme |-> IF hasScheme THEN Take(url, i - 1) ELSE <<>>,
        netloc |-> IF ~hasNetloc THEN <<>> ELSE IF j = 0 THEN tail ELSE Take(tail, j - 1),
        path |-> IF ~hasNetloc THEN rest ELSE IF j = 0 THEN <<>> ELSE Drop(tail, j - 1)]

(***************************************************************************)
(* The checkpoint naming convention and the entries of the model.          *)
(***************************************************************************)
PREFIX_CHECKPOINT_DIR == <<"c", "h", "e", "c", "k", "p", "o", "i", "n", "t">>

\* the name checkpoint-<step>
CheckpointName(n) == PREFIX_CHECKPOINT_DIR \o <<"-">> \o ToStr(n)

\* an entry (immediate child) of the workspace directory
Dir(name) == [name |-> name, kind |-> "dir"]
File(name) == [name |-> name, kind |-> "file"]

Checkpoint(n) == Dir(CheckpointName(n))

\* a directory whose name starts with the prefix but carries no step number
CheckpointBest == Dir(PREFIX_CHECKPOINT_DIR \o <<"-", "b", "e", "s", "t">>)

ModelBin == File(<<"m", "o", "d", "e", "l", ".", "b", "i", "n">>)

ReadMe == File(<<"R", "E", "A", "D", "M", "E", ".", "m", "d">>)

Steps == {SaveSteps * n : n \in 1..MaxStep}

Checkpoints == {Checkpoint(n) : n \in Steps}

\* what an output location may hold before the job
InitUniverse == Checkpoints \cup {CheckpointBest, ModelBin}

Universe == InitUniverse \cup {ReadMe}

(***************************************************************************)
(* Locations and the storage backend.                                      *)
(***************************************************************************)
\* "/out": a local output directory
LocalOut == <<"/", "o", "u", "t">>

\* "s3://b/run1": a remote output location
RemoteOut == <<"s", "3", ":", "/", "/", "b", "/", "r", "u", "n", "1">>

\* "s3://b/run1/": the same location written with a trailing slash
RemoteOutSlash == RemoteOut \o <<"/">>

OutputUrls == {LocalOut, RemoteOut, RemoteOutSlash}

\* "/tmp/t": the directory mkdtemp() creates
TempDir == <<"/", "t", "m", "p", "/", "t">>

FileScheme == <<"f", "i", "l", "e">>

\* "/w": the directory StorageHelper.conform_url resolves a relative local path
\* against
CwdPath == <<"/", "w">>

\* os.path.isabs(path)
os_path_isabs(path) == StartsWith(path, <<"/">>)

\* get_direct_access(url): the local path of a location the local file system
\* serves (no scheme, or file://), None for a remote one. conform_url turns a
\* local path into file:// + its absolute form, Path.as_posix drops a trailing
\* slash.
get_direct_access(url) ==
    LET scheme == urlparse(url).scheme IN
    IF scheme = <<>>
    THEN StripSlash(IF os_path_isabs(url) THEN url ELSE CwdPath \o <<"/">> \o url)
    ELSE IF scheme = FileScheme THEN StripSlash(Drop(url, 7))
    ELSE None

\* a join that drops its second part
os_path_join_first(a, b) == a

\* os.path.join(a, b)
os_path_join(a, b) ==
    IF Len(b) > 0 /\ b[1] = "/" THEN b
    ELSE IF Len(a) = 0 \/ a[Len(a)] = "/" THEN a \o b
    ELSE a \o <<"/">> \o b

\* os.path.dirname(p): the text before the last "/", without trailing slashes
\* unless it is slashes only
RECURSIVE RStripSlashes(_)
RStripSlashes(s) == IF Len(s) > 0 /\ s[Len(s)] = "/" THEN RStripSlashes(Take(s, Len(s) - 1))
                    ELSE s

os_path_dirname(p) ==
    LET head == Take(p, RFind(p, "/")) IN
    IF \E k \in 1..Len(head) : head[k] # "/" THEN RStripSlashes(head) ELSE head

\* conform_url(url), lines 86-88: a local path becomes file:// followed by its
\* absolute form, a URL with a scheme is kept
conform_url(url) ==
    IF urlparse(url).scheme # <<>> THEN url
    ELSE <<"f", "i", "l", "e", ":", "/", "/">>
             \o (IF os_path_isabs(url) THEN url ELSE CwdPath \o <<"/">> \o url)

\* a target of make_absolute: isinstance(path, str) or a list of strings
Str(v) == [kind |-> "str", val |-> v]
List(v) == [kind |-> "list", val |-> v]

\* an is_absolute that forgets the scheme test
is_absolute_path_only(p) == os_path_isabs(p)

\* is_absolute(path), lines 91-92
is_absolute(p) == urlparse(p).scheme # <<>> \/ os_path_isabs(p)

\* a config_dir_url cut before the last slash
config_dir_url_no_slash(url) == Take(url, RFind(url, "/") - 1)

\* lines 102-103: config_url[:config_url.rfind("/") + 1]
config_dir_url(url) == Take(url, RFind(url, "/"))

\* lines 105/107: one target against a remote configuration
AbsoluteRemote(url, p) == IF is_absolute(p) THEN p ELSE config_dir_url(url) \o p

\* lines 111/113: one target against a local configuration
AbsoluteLocal(config_path, p) ==
    IF is_absolute(p) THEN p ELSE os_path_join(os_path_dirname(config_path), p)

\* make_absolute(config_url, path), lines 95-113
make_absolute(url, target) ==
    IF url = None THEN target
    ELSE LET config_path == get_direct_access(url) IN
         IF config_path = None
         THEN IF target.kind = "str" THEN Str(AbsoluteRemote(url, target.val))
              ELSE List([k \in 1..Len(target.val) |-> AbsoluteRemote(url, target.val[k])])
         ELSE IF target.kind = "str" THEN Str(AbsoluteLocal(config_path, target.val))
              ELSE List([k \in 1..Len(target.val) |->
                            AbsoluteLocal(config_path, target.val[k])])

\* lines 448-451: a logging directory that starts with the text of the output
\* directory argument is moved under the workspace path
RewriteLoggingDir(logging, output_arg, workspace) ==
    IF StartsWith(logging, output_arg) THEN workspace \o Drop(logging, Len(output_arg))
    ELSE logging

\* the logging directories a job may be given: a sub-path of the output
\* directory ("<out>/logs"), a path that only shares its leading text
\* ("<out>2/logs"), and an unrelated one ("/log")
LoggingDirs(out) ==
    {StripSlash(out) \o <<"/", "l", "o", "g", "s">>,
     StripSlash(out) \o <<"2", "/", "l", "o", "g", "s">>,
     <<"/", "l", "o", "g">>}

\* "/ckpt": a resume target the caller supplies
ExplicitTarget == <<"/", "c", "k", "p", "t">>

\* the local variable checkpoint before line 770 binds it
Unbound == <<"unbound">>

\* a resume target that prefers the detected checkpoint
ResumeTargetDetectedFirst(explicit, last) ==
    IF last # None THEN last ELSE explicit

\* lines 770-774: the explicit target if given, else the detected checkpoint
ResumeTarget(explicit, last) ==
    IF explicit # None THEN explicit
    ELSE IF last # None THEN last
    ELSE None

\* the URL of the object that holds entry e of the folder at url: a file is one
\* object, a directory is the object of the file "f" inside it
ObjectUrl(url, e) ==
    StripSlash(url) \o <<"/">> \o e.name
        \o (IF e.kind = "dir" THEN <<"/", "f">> ELSE <<>>)

\* "s3://b/run10/checkpoint-1/f": an object of a neighbouring location whose
\* key shares the output location's text as a prefix
SiblingObject == ObjectUrl(RemoteOut \o <<"0">>, Checkpoint(1))

\* StorageManager.list(url, return_full_path=True): the full URLs of the
\* objects whose URL starts with url
StorageManager_list(store, url) == {u \in store : StartsWith(u, url)}

\* StorageManager.download_folder(url, temp_dir): the entries that appear under
\* os.path.join(temp_dir, urlparse(url).path[1:])
download_folder(store, url) == {e \in Universe : ObjectUrl(url, e) \in store}

\* an upload that sends the regular files of the folder and no subdirectory
upload_folder_files_only(entries, url) ==
    {StripSlash(url) \o <<"/">> \o e.name : e \in {f \in entries : f.kind = "file"}}

\* StorageManager.upload_folder(output_dir, url): the objects written
upload_folder(entries, url) == {ObjectUrl(url, e) : e \in entries}

\* delete_url(url): the store without the object at scheme://netloc + path
delete_url(store, url) ==
    LET parsed == urlparse(url) IN
    store \ {parsed.scheme \o <<":", "/", "/">> \o parsed.netloc \o parsed.path}

\* line 859: the remote pre-prune test of one listed URL
PrePruneMatch(url, output_url) ==
    StartsWith(Drop(url, Len(output_url)), <<"/">> \o PREFIX_CHECKPOINT_DIR \o <<"-">>)

\* lines 857-859: the listed URLs the loop acts on. An iteration over a URL
\* that fails the test of line 859 does nothing, so the loop is followed over
\* the URLs that pass it.
PrePruneUrls(store, output_url) ==
    {u \in StorageManager_list(store, output_url) : PrePruneMatch(u, output_url)}

(***************************************************************************)
(* Checkpoint entries, resume detection and local pruning.                 *)
(***************************************************************************)
\* _re_checkpoint: ^checkpoint\-(\d+)$
MatchesCheckpointRe(name) ==
    LET p == PREFIX_CHECKPOINT_DIR \o <<"-">> IN
    /\ StartsWith(name, p)
    /\ Len(name) > Len(p)
    /\ \A i \in (Len(p) + 1)..Len(name) : IsDigit(name[i])

\* the step number of a name that matches
StepOf(name) == ParseInt(Drop(name, Len(PREFIX_CHECKPOINT_DIR) + 1))

\* a detector that compares the names as text, so that checkpoint-5 follows
\* checkpoint-10
get_last_checkpoint_by_name(entries) ==
    LET cks == {e \in entries : MatchesCheckpointRe(e.name) /\ e.kind = "dir"}
        Before(x, y) ==
            \E i \in 1..(Len(y) + 1) :
                /\ i <= Len(x) + 1
                /\ \A j \in 1..(i - 1) : x[j] = y[j]
                /\ \/ i = Len(x) + 1 /\ i <= Len(y)
                   \/ /\ i <= Len(x) /\ i <= Len(y)
                      /\ IsDigit(x[i]) /\ IsDigit(y[i])
                      /\ DigitValue(x[i]) < DigitValue(y[i])
    IN  IF cks = {} THEN None
        ELSE (CHOOSE e \in cks :
                 \A o \in cks : o = e \/ Before(o.name, e.name)).name

\* get_last_checkpoint(folder): the matching directory with the highest step,
\* None when there is none
get_last_checkpoint(entries) ==
    LET cks == {e \in entries : MatchesCheckpointRe(e.name) /\ e.kind = "dir"} IN
    IF cks = {} THEN None
    ELSE (CHOOSE e \in cks : \A o \in cks : StepOf(o.name) <= StepOf(e.name)).name

\* a pruning loop that stops after its first rmtree
PruneTargetsFirstOnly(entries) ==
    LET all == {e \in entries :
                   StartsWith(e.name, PREFIX_CHECKPOINT_DIR \o <<"-">>) /\ e.kind = "dir"}
    IN IF all = {} THEN {} ELSE {CHOOSE e \in all : TRUE}

\* line 790: Path(output_dir).glob("checkpoint-*") filtered by os.path.isdir
PruneTargets(entries) ==
    {e \in entries : StartsWith(e.name, PREFIX_CHECKPOINT_DIR \o <<"-">>) /\ e.kind = "dir"}

\* lines 790-792: the workspace after every target has been removed
Prune(entries) == entries \ PruneTargets(entries)

(***************************************************************************)
(* The state of one job.                                                   *)
(***************************************************************************)
VARIABLES
    pc,                         \* the position of main()
    output_url,                 \* line 440
    do_train,                   \* training_args.do_train
    overwrite_output_dir,       \* training_args.overwrite_output_dir
    delete_checkpoints_at_end,  \* data_args.delete_checkpoints_at_end
    cwd,                        \* the current working directory: where it is, the regular files in it
    temp_dir,                   \* line 442/444
    output_dir,                 \* training_args.output_dir after line 452
    tempExists,                 \* the directory mkdtemp() made is on disk
    outputExists,               \* os.path.isdir(training_args.output_dir)
    ws,                         \* the entries of the output directory on disk
    remote,                     \* the object store: the URLs of its objects
    urls,                       \* lines 857-859: the listed URLs to delete, not visited yet
    last_checkpoint,            \* line 439/455
    exc,                        \* the exception in flight or surfaced to the caller
    bodyExc,                    \* the exception the try body raised
    failedAt,                   \* the step of acquisition or finalization that failed
    finStarts,                  \* how often the finally block took its Mirrored branch
    deletes,                    \* the URLs delete_url was called with
    uploaded,                   \* upload_folder has returned
    sent,                       \* the entries upload_folder was given
    rmtrees,                    \* how often shutil.rmtree(temp_dir) was called
    pruned,                     \* the entries the local pruning of lines 790-792 removed
    config_url,                 \* line 371/378
    resume_from_checkpoint,     \* training_args.resume_from_checkpoint
    logging_arg,                \* training_args.logging_dir as the caller gave it
    logging_dir,                \* training_args.logging_dir, rewritten at line 451
    checkpoint,                 \* line 770-775: the resume target handed to trainer.train
    downloads,                  \* how often download_folder has returned
    finWs,                      \* the entries of the workspace when the finally block began
    job,                        \* "first", or "following" for a job started after another one
    prev                        \* what the earlier job left: its outcome and what it uploaded

\* make_absolute called on its own
VARIABLES
    path,                       \* the target: a string or a list of strings
    resolved,                   \* make_absolute(config_url, path)
    resolvedAgain               \* make_absolute(config_url, resolved)

\* several processes running main() against one output location
VARIABLES
    rpc,                        \* the position of each process
    rws,                        \* the entries of each process's workspace
    rurls,                      \* lines 857-859 in each process: the URLs to delete, not visited yet
    rfin,                       \* the processes that took the Mirrored branch of finally
    ruploaded,                  \* the objects each process has uploaded
    clobbered                   \* a process deleted an object another one had uploaded

jobVars == <<pc, output_url, do_train, overwrite_output_dir, delete_checkpoints_at_end,
             cwd, temp_dir, output_dir, tempExists, outputExists, ws, remote, urls,
             last_checkpoint, exc, bodyExc, failedAt, finStarts, deletes, uploaded,
             sent, rmtrees, pruned, config_url, resume_from_checkpoint, logging_dir,
             checkpoint, downloads, finWs, logging_arg, job, prev>>

resolveVars == <<path, resolved, resolvedAgain>>

rankVars == <<rpc, rws, rurls, rfin, ruploaded, clobbered>>

vars == <<jobVars, resolveVars, rankVars>>

args == <<output_url, do_train, overwrite_output_dir, delete_checkpoints_at_end, cwd,
          config_url, resume_from_checkpoint, logging_arg, job, prev>>

history == <<bodyExc, failedAt, finStarts, deletes, uploaded, sent, rmtrees, pruned>>

\* the values of an argument: main() reads overwrite_output_dir,
\* delete_checkpoints_at_end and resume_from_checkpoint only when do_train is
\* set (lines 454, 769-788), and the working directory only at line 456; where
\* an argument is never read it takes one value
ReadOnlyIf(read, values, default) == IF read THEN values ELSE {default}

\* a working directory away from the output directory, with no regular file
NoFiles == [at |-> "elsewhere", files |-> {}]

\* the working directories a job may be started from
WorkingDirs(direct) ==
    {NoFiles,
     [at |-> "elsewhere", files |-> {ModelBin.name}],
     [at |-> "elsewhere", files |-> {CheckpointBest.name}]}
    \cup (IF direct THEN {[at |-> "output_dir", files |-> {}]} ELSE {})

\* os.path.isfile(p) for a relative path p: resolved against the working directory
os_path_isfile(p) ==
    IF cwd.at = "output_dir" THEN File(p) \in ws ELSE p \in cwd.files

\* os.listdir(training_args.output_dir): the bare names of the entries
os_listdir(entries) == {e.name : e \in entries}

\* the other specifications' variables while one job runs
\* no target: make_absolute has not been called, or has not returned
NoTarget == [kind |-> "none", val |-> <<>>]

ResolveIdle == path = NoTarget /\ resolved = NoTarget /\ resolvedAgain = NoTarget

RanksIdle ==
    /\ rpc = <<>>
    /\ rws = <<>>
    /\ rurls = <<>>
    /\ rfin = {}
    /\ ruploaded = <<>>
    /\ clobbered = FALSE

\* no earlier job. Of a job that has left main(): trained, its try body ended
\* normally with do_train set; pruning, it was to delete its checkpoints at the
\* end; finalized, its finally block ran every step of
\* the Mirrored branch without an error; sent, the entries it uploaded.
NoJob == [trained |-> FALSE, pruning |-> FALSE, finalized |-> FALSE, sent |-> {}]

\* the job is not preceded by another one
FirstJob == job = "first" /\ prev = NoJob

Init ==
    /\ pc = "start"
    /\ FirstJob
    /\ config_url = None
    /\ output_url \in {make_absolute(config_url, Str(o)).val : o \in OutputUrls}
    /\ logging_arg \in LoggingDirs(output_url)
    /\ logging_dir = logging_arg
    /\ checkpoint = Unbound
    /\ downloads = 0
    /\ finWs = {}
    /\ ResolveIdle
    /\ RanksIdle
    /\ do_train \in BOOLEAN
    /\ overwrite_output_dir \in ReadOnlyIf(do_train, BOOLEAN, FALSE)
    /\ delete_checkpoints_at_end \in ReadOnlyIf(do_train, BOOLEAN, FALSE)
    /\ resume_from_checkpoint \in ReadOnlyIf(do_train, {None, ExplicitTarget}, None)
    /\ \E content \in SUBSET InitUniverse :
          IF get_direct_access(output_url) # None
          THEN /\ ws = content
               /\ outputExists \in (IF content = {} THEN BOOLEAN ELSE {TRUE})
               /\ remote = {SiblingObject}
               /\ cwd \in ReadOnlyIf(do_train /\ ~overwrite_output_dir,
                                     {c \in WorkingDirs(TRUE) :
                                         c.at = "output_dir" => outputExists},
                                     NoFiles)
          ELSE /\ ws = {}
               /\ outputExists = FALSE
               /\ remote = {SiblingObject} \cup upload_folder(content, output_url)
               /\ cwd \in ReadOnlyIf(do_train /\ ~overwrite_output_dir,
                                     WorkingDirs(FALSE), NoFiles)
    /\ temp_dir = None
    /\ output_dir = None
    /\ tempExists = FALSE
    /\ urls = {}
    /\ last_checkpoint = None
    /\ exc = "none"
    /\ bodyExc = "none"
    /\ failedAt = "none"
    /\ finStarts = 0
    /\ deletes = {}
    /\ uploaded = FALSE
    /\ sent = {}
    /\ rmtrees = 0
    /\ pruned = {}

(***************************************************************************)
(* Control flow of main().                                                 *)
(***************************************************************************)
\* a body whose exceptions leave main() without passing through a finally block
RaiseToCaller == "done"

\* lines 453/855: an exception raised inside the try body enters the finally block
RaiseTo == "finally"

\* lines 855-862: an exception raised inside the finally block replaces the one
\* in flight and leaves the block at once
Supersede(pending, new) == new

\* line 856: the finally block acts only for a Mirrored workspace
FinallyGuard(t) == t # None

\* a finally block that uploads before it pre-prunes
FinNextUploadFirst(p) ==
    CASE p = "finally" -> "fin_upload"
      [] p = "fin_upload" -> "fin_delete"
      [] p = "fin_delete" -> "fin_rmtree"
      [] p = "fin_rmtree" -> "done"

\* a finally block that removes the temp directory before it lists, deletes
\* and uploads
FinNextRemoveFirst(p) ==
    CASE p = "finally" -> "fin_rmtree"
      [] p = "fin_rmtree" -> "fin_delete"
      [] p = "fin_delete" -> "fin_upload"
      [] p = "fin_upload" -> "done"

\* a finally block that removes the temp directory without uploading it
FinNextSkipUpload(p) ==
    CASE p = "finally" -> "fin_delete"
      [] p = "fin_delete" -> "fin_rmtree"
      [] p = "fin_upload" -> "fin_rmtree"
      [] p = "fin_rmtree" -> "done"

\* lines 857-862: the order of the steps of the finally block
FinNext(p) ==
    CASE p = "finally" -> "fin_delete"
      [] p = "fin_delete" -> "fin_upload"
      [] p = "fin_upload" -> "fin_rmtree"
      [] p = "fin_rmtree" -> "done"

BodyPcs == {"detect", "setup", "train", "prune", "evaluate"}

FinPcs == {"fin_delete", "fin_upload", "fin_rmtree"}

(***************************************************************************)
(* Workspace acquisition, lines 440-452.                                   *)
(***************************************************************************)
\* direct access: the job works in the output directory itself
AcquireDirect ==
    /\ pc = "start"
    /\ get_direct_access(output_url) # None
    /\ output_dir' = get_direct_access(output_url)
    /\ logging_dir' = RewriteLoggingDir(logging_dir, output_url, output_dir')
    /\ pc' = "detect"
    /\ UNCHANGED <<args, temp_dir, tempExists, outputExists, ws, remote, urls,
                   last_checkpoint, exc, history,
                   checkpoint, downloads, finWs, resolveVars, rankVars>>

\* no direct access: mkdtemp, download_folder, output_dir under the temp dir
AcquireMirrored ==
    /\ pc = "start"
    /\ get_direct_access(output_url) = None
    /\ temp_dir' = TempDir
    /\ tempExists' = TRUE
    /\ ws' = download_folder(remote, output_url)
    /\ outputExists' = (ws' # {})
    /\ downloads' = downloads + 1
    /\ output_dir' = os_path_join(TempDir, Drop(urlparse(output_url).path, 1))
    /\ logging_dir' = RewriteLoggingDir(logging_dir, output_url, output_dir')
    /\ pc' = "detect"
    /\ UNCHANGED <<args, remote, urls, last_checkpoint, exc, history,
                   checkpoint, finWs, resolveVars, rankVars>>

\* download_folder raises at line 445, outside the try statement
AcquireDownloadFails ==
    /\ pc = "start"
    /\ get_direct_access(output_url) = None
    /\ temp_dir' = TempDir
    /\ tempExists' = TRUE
    /\ exc' = "StorageError"
    /\ failedAt' = "download"
    /\ pc' = "done"
    /\ UNCHANGED <<args, output_dir, outputExists, ws, remote, urls, last_checkpoint,
                   bodyExc, finStarts, deletes, uploaded, sent, rmtrees, pruned,
                   logging_dir, checkpoint, downloads, finWs, resolveVars, rankVars>>

(***************************************************************************)
(* Resume detection, lines 454-465.                                        *)
(***************************************************************************)
\* line 454
DetectGuard == outputExists /\ do_train /\ ~overwrite_output_dir

\* line 456: no checkpoint and some listed name is a regular file
ConflictTest(last, entries) ==
    last = None /\ \E p \in os_listdir(entries) : os_path_isfile(p)

Detect ==
    /\ pc = "detect"
    /\ IF DetectGuard
       THEN LET last == get_last_checkpoint(ws) IN
            /\ last_checkpoint' = last
            /\ IF ConflictTest(last, ws)
               THEN /\ exc' = "ValueError"
                    /\ bodyExc' = "ValueError"
                    /\ pc' = RaiseTo
               ELSE /\ pc' = "setup"
                    /\ UNCHANGED <<exc, bodyExc>>
       ELSE /\ pc' = "setup"
            /\ UNCHANGED <<last_checkpoint, exc, bodyExc>>
    /\ UNCHANGED <<args, temp_dir, output_dir, tempExists, outputExists, ws, remote,
                   urls, failedAt, finStarts, deletes, uploaded, sent, rmtrees, pruned,
                   logging_dir, checkpoint, downloads, finWs, resolveVars, rankVars>>

(***************************************************************************)
(* The job body, lines 467-854.                                            *)
(***************************************************************************)
\* lines 467-766: seed, datasets, tokenizer, model, trainer
Setup ==
    /\ pc = "setup"
    /\ pc' = IF do_train THEN "train" ELSE "evaluate"
    /\ UNCHANGED <<args, temp_dir, output_dir, tempExists, outputExists, ws, remote,
                   urls, last_checkpoint, exc, history,
                   logging_dir, checkpoint, downloads, finWs, resolveVars, rankVars>>

\* lines 769-786: trainer.train writes checkpoint-<step> directories, then
\* save_model writes the final model
Train ==
    /\ pc = "train"
    /\ \E made \in SUBSET Checkpoints :
          ws' = ws \cup made \cup {ModelBin}
    /\ checkpoint' = ResumeTarget(resume_from_checkpoint, last_checkpoint)
    /\ outputExists' = TRUE
    /\ pc' = IF delete_checkpoints_at_end THEN "prune" ELSE "evaluate"
    /\ UNCHANGED <<args, temp_dir, output_dir, tempExists, remote, urls,
                   last_checkpoint, exc, history,
                   logging_dir, downloads, finWs, resolveVars, rankVars>>

\* trainer.train raises after it wrote some checkpoints
TrainFails ==
    /\ pc = "train"
    /\ \E made \in SUBSET Checkpoints :
          ws' = ws \cup made
    /\ checkpoint' = ResumeTarget(resume_from_checkpoint, last_checkpoint)
    /\ outputExists' = (outputExists \/ ws' # {})
    /\ exc' = "JobError"
    /\ bodyExc' = "JobError"
    /\ pc' = RaiseTo
    /\ UNCHANGED <<args, temp_dir, output_dir, tempExists, remote, urls,
                   last_checkpoint, failedAt, finStarts, deletes, uploaded, sent, rmtrees, pruned,
                   logging_dir, downloads, finWs, resolveVars, rankVars>>

\* lines 788-792: local pruning, every rmtree succeeds
LocalPrune ==
    /\ pc = "prune"
    /\ ws' = Prune(ws)
    /\ pruned' = PruneTargets(ws)
    /\ pc' = "evaluate"
    /\ UNCHANGED <<args, temp_dir, output_dir, tempExists, outputExists, remote, urls,
                   last_checkpoint, exc, bodyExc, failedAt, finStarts, deletes, uploaded,
                   sent, rmtrees,
                   logging_dir, checkpoint, downloads, finWs, resolveVars, rankVars>>

\* lines 791-792: an rmtree raises after some of the targets were removed
LocalPruneFails ==
    /\ pc = "prune"
    /\ \E gone \in SUBSET PruneTargets(ws) :
          /\ gone # PruneTargets(ws)
          /\ ws' = ws \ gone
          /\ pruned' = gone
    /\ exc' = "JobError"
    /\ bodyExc' = "JobError"
    /\ pc' = RaiseTo
    /\ UNCHANGED <<args, temp_dir, output_dir, tempExists, outputExists, remote, urls,
                   last_checkpoint, failedAt, finStarts, deletes, uploaded, sent, rmtrees,
                   logging_dir, checkpoint, downloads, finWs, resolveVars, rankVars>>

\* lines 794-854: evaluate, predict, and the model card written into the
\* output directory; the try body ends normally
Evaluate ==
    /\ pc = "evaluate"
    /\ ws' = ws \cup {ReadMe}
    /\ outputExists' = TRUE
    /\ pc' = "finally"
    /\ UNCHANGED <<args, temp_dir, output_dir, tempExists, remote, urls,
                   last_checkpoint, exc, history,
                   logging_dir, checkpoint, downloads, finWs, resolveVars, rankVars>>

\* any other statement of the body raises
BodyRaises ==
    /\ pc \in {"setup", "evaluate"}
    /\ exc' = "JobError"
    /\ bodyExc' = "JobError"
    /\ pc' = RaiseTo
    /\ UNCHANGED <<args, temp_dir, output_dir, tempExists, outputExists, ws, remote,
                   urls, last_checkpoint, failedAt, finStarts, deletes, uploaded, sent,
                   rmtrees, pruned,
                   logging_dir, checkpoint, downloads, finWs, resolveVars, rankVars>>

\* the job is interrupted (KeyboardInterrupt) inside the try body
Interrupt ==
    /\ pc \in BodyPcs
    /\ exc' = "KeyboardInterrupt"
    /\ bodyExc' = "KeyboardInterrupt"
    /\ pc' = RaiseTo
    /\ UNCHANGED <<args, temp_dir, output_dir, tempExists, outputExists, ws, remote,
                   urls, last_checkpoint, failedAt, finStarts, deletes, uploaded, sent,
                   rmtrees, pruned,
                   logging_dir, checkpoint, downloads, finWs, resolveVars, rankVars>>

(***************************************************************************)
(* The finally block, lines 855-862.                                       *)
(***************************************************************************)
\* line 856 false: nothing to do for a Direct workspace
FinallyDirect ==
    /\ pc = "finally"
    /\ ~FinallyGuard(temp_dir)
    /\ pc' = "done"
    /\ UNCHANGED <<args, temp_dir, output_dir, tempExists, outputExists, ws, remote,
                   urls, last_checkpoint, exc, history,
                   logging_dir, checkpoint, downloads, finWs, resolveVars, rankVars>>

\* line 857: list the remote objects under output_url
FinallyList ==
    /\ pc = "finally"
    /\ FinallyGuard(temp_dir)
    /\ finStarts' = finStarts + 1
    /\ finWs' = ws
    /\ urls' = PrePruneUrls(remote, output_url)
    /\ pc' = FinNext("finally")
    /\ UNCHANGED <<args, temp_dir, output_dir, tempExists, outputExists, ws, remote,
                   last_checkpoint, exc, bodyExc, failedAt, deletes, uploaded, sent,
                   rmtrees, pruned,
                   logging_dir, checkpoint, downloads, resolveVars, rankVars>>

\* line 857: StorageManager.list raises
FinallyListFails ==
    /\ pc = "finally"
    /\ FinallyGuard(temp_dir)
    /\ finStarts' = finStarts + 1
    /\ finWs' = ws
    /\ exc' = Supersede(exc, "StorageError")
    /\ failedAt' = "list"
    /\ pc' = "done"
    /\ UNCHANGED <<args, temp_dir, output_dir, tempExists, outputExists, ws, remote,
                   urls, last_checkpoint, bodyExc, deletes, uploaded, sent, rmtrees, pruned,
                   logging_dir, checkpoint, downloads, resolveVars, rankVars>>

\* lines 858-860: one iteration of the loop that reaches delete_url
PrePruneStep ==
    /\ pc = "fin_delete"
    /\ \E url \in urls :
          /\ urls' = urls \ {url}
          /\ remote' = delete_url(remote, url)
          /\ deletes' = deletes \cup {url}
    /\ UNCHANGED <<pc, args, temp_dir, output_dir, tempExists, outputExists, ws,
                   last_checkpoint, exc, bodyExc, failedAt, finStarts, uploaded, sent,
                   rmtrees, pruned,
                   logging_dir, checkpoint, downloads, finWs, resolveVars, rankVars>>

\* line 860: delete_url raises
PrePruneFails ==
    /\ pc = "fin_delete"
    /\ urls # {}
    /\ exc' = Supersede(exc, "StorageError")
    /\ failedAt' = "delete"
    /\ pc' = "done"
    /\ UNCHANGED <<args, temp_dir, output_dir, tempExists, outputExists, ws, remote,
                   urls, last_checkpoint, bodyExc, finStarts, deletes, uploaded, sent,
                   rmtrees, pruned,
                   logging_dir, checkpoint, downloads, finWs, resolveVars, rankVars>>

\* the loop has visited every listed URL
PrePruneDone ==
    /\ pc = "fin_delete"
    /\ urls = {}
    /\ pc' = FinNext("fin_delete")
    /\ UNCHANGED <<args, temp_dir, output_dir, tempExists, outputExists, ws, remote,
                   urls, last_checkpoint, exc, history,
                   logging_dir, checkpoint, downloads, finWs, resolveVars, rankVars>>

\* line 861: upload the workspace
Upload ==
    /\ pc = "fin_upload"
    /\ remote' = remote \cup upload_folder(ws, output_url)
    /\ sent' = ws
    /\ uploaded' = TRUE
    /\ pc' = FinNext("fin_upload")
    /\ UNCHANGED <<args, temp_dir, output_dir, tempExists, outputExists, ws, urls,
                   last_checkpoint, exc, bodyExc, failedAt, finStarts, deletes, rmtrees, pruned,
                   logging_dir, checkpoint, downloads, finWs, resolveVars, rankVars>>

\* line 861: upload_folder raises after it wrote some of the objects
UploadFails ==
    /\ pc = "fin_upload"
    /\ \E part \in SUBSET ws :
          /\ part # ws \/ ws = {}
          /\ remote' = remote \cup upload_folder(part, output_url)
    /\ exc' = Supersede(exc, "StorageError")
    /\ failedAt' = "upload"
    /\ pc' = "done"
    /\ UNCHANGED <<args, temp_dir, output_dir, tempExists, outputExists, ws, urls,
                   last_checkpoint, bodyExc, finStarts, deletes, uploaded, sent, rmtrees, pruned,
                   logging_dir, checkpoint, downloads, finWs, resolveVars, rankVars>>

\* line 862: remove the ephemeral directory and everything under it
RemoveTemp ==
    /\ pc = "fin_rmtree"
    /\ rmtrees' = rmtrees + 1
    /\ tempExists' = FALSE
    /\ outputExists' = FALSE
    /\ ws' = {}
    /\ pc' = FinNext("fin_rmtree")
    /\ UNCHANGED <<args, temp_dir, output_dir, remote, urls, last_checkpoint, exc,
                   bodyExc, failedAt, finStarts, deletes, uploaded, sent, pruned,
                   logging_dir, checkpoint, downloads, finWs, resolveVars, rankVars>>

\* line 862: shutil.rmtree raises
RemoveTempFails ==
    /\ pc = "fin_rmtree"
    /\ rmtrees' = rmtrees + 1
    /\ exc' = Supersede(exc, "OSError")
    /\ failedAt' = "rmtree"
    /\ pc' = "done"
    /\ UNCHANGED <<args, temp_dir, output_dir, tempExists, outputExists, ws, remote,
                   urls, last_checkpoint, bodyExc, finStarts, deletes, uploaded, sent, pruned,
                   logging_dir, checkpoint, downloads, finWs, resolveVars, rankVars>>

\* the job is interrupted inside the finally block
FinallyInterrupt ==
    /\ pc \in FinPcs
    /\ exc' = Supersede(exc, "KeyboardInterrupt")
    /\ failedAt' = "interrupt"
    /\ pc' = "done"
    /\ UNCHANGED <<args, temp_dir, output_dir, tempExists, outputExists, ws, remote,
                   urls, last_checkpoint, bodyExc, finStarts, deletes, uploaded, sent,
                   rmtrees, pruned,
                   logging_dir, checkpoint, downloads, finWs, resolveVars, rankVars>>

Next ==
    \/ AcquireDirect
    \/ AcquireMirrored
    \/ AcquireDownloadFails
    \/ Detect
    \/ Setup
    \/ Train
    \/ TrainFails
    \/ LocalPrune
    \/ LocalPruneFails
    \/ Evaluate
    \/ BodyRaises
    \/ Interrupt
    \/ FinallyDirect
    \/ FinallyList
    \/ FinallyListFails
    \/ PrePruneStep
    \/ PrePruneFails
    \/ PrePruneDone
    \/ Upload
    \/ UploadFails
    \/ RemoveTemp
    \/ RemoveTempFails
    \/ FinallyInterrupt

Spec == Init /\ [][Next]_vars

(***************************************************************************)
(* make_absolute on its own: the targets and origins it is called with.    *)
(***************************************************************************)
\* "/c/cfg.json", "cfg.json", "/cfg.json" and "s3://b/d/cfg.json": the
\* configuration files a job may be given (args.config_file)
ConfigFiles ==
    {<<"/", "c", "/", "c", "f", "g", ".", "j", "s", "o", "n">>,
     <<"c", "f", "g", ".", "j", "s", "o", "n">>,
     <<"/", "c", "f", "g", ".", "j", "s", "o", "n">>,
     <<"s", "3", ":", "/", "/", "b", "/", "d", "/", "c", "f", "g", ".", "j", "s", "o", "n">>}

\* lines 371-378: config_url is None without a configuration file, else
\* conform_url(args.config_file)
Origins == {None} \cup {conform_url(f) : f \in ConfigFiles}

\* the paths a configuration may name: relative ("x", "d/x", ""), absolute
\* ("/a/x") and with a scheme ("s3://b/y", "file:///a/x")
TargetStrings ==
    {<<"x">>,
     <<"d", "/", "x">>,
     <<>>,
     <<"/", "a", "/", "x">>,
     <<"s", "3", ":", "/", "/", "b", "/", "y">>,
     <<"f", "i", "l", "e", ":", "/", "/", "/", "a", "/", "x">>}

\* the lists of at most n paths
Lists(n) == UNION {[1..k -> TargetStrings] : k \in 0..n}

Targets == {Str(t) : t \in TargetStrings} \cup {List(l) : l \in Lists(MaxTargets)}

\* the local state of main() before line 440
NothingDone ==
    /\ ws = {}
    /\ outputExists = FALSE
    /\ temp_dir = None
    /\ output_dir = None
    /\ tempExists = FALSE
    /\ urls = {}
    /\ last_checkpoint = None
    /\ checkpoint = Unbound
    /\ downloads = 0
    /\ finWs = {}
    /\ exc = "none"
    /\ bodyExc = "none"
    /\ failedAt = "none"
    /\ finStarts = 0
    /\ deletes = {}
    /\ uploaded = FALSE
    /\ sent = {}
    /\ rmtrees = 0
    /\ pruned = {}

\* main() before line 440: nothing acquired, nothing detected
JobNotStarted ==
    /\ pc = "config"
    /\ FirstJob
    /\ output_url = None
    /\ do_train = FALSE
    /\ overwrite_output_dir = FALSE
    /\ delete_checkpoints_at_end = FALSE
    /\ resume_from_checkpoint = None
    /\ logging_arg = None
    /\ logging_dir = None
    /\ remote = {}
    /\ cwd = NoFiles
    /\ NothingDone

InitResolve ==
    /\ JobNotStarted
    /\ RanksIdle
    /\ config_url \in Origins
    /\ path \in Targets
    /\ resolved = NoTarget
    /\ resolvedAgain = NoTarget

\* url = make_absolute(config_url, path)
Resolve ==
    /\ path # NoTarget
    /\ resolved = NoTarget
    /\ resolved' = make_absolute(config_url, path)
    /\ UNCHANGED <<jobVars, path, resolvedAgain, rankVars>>

\* make_absolute(config_url, url): the result resolved once more
ResolveAgain ==
    /\ resolved # NoTarget
    /\ resolvedAgain = NoTarget
    /\ resolvedAgain' = make_absolute(config_url, resolved)
    /\ UNCHANGED <<jobVars, path, resolved, rankVars>>

NextResolve == Resolve \/ ResolveAgain

SpecResolve == InitResolve /\ [][NextResolve]_vars

(***************************************************************************)
(* Several processes: a launcher (xla_spawn through _mp_fn, lines 867-869, *)
(* or one process per device) runs main() in every rank. Each process      *)
(* executes lines 438-452 and 855-862 itself: the code tests no rank       *)
(* there. Every process has the temp directory its own mkdtemp() made; the *)
(* remote store is the one thing they share.                               *)
(***************************************************************************)
Ranks == 1..NumRanks

\* the process for which trainer.is_world_process_zero() holds: the only one
\* whose trainer writes checkpoints and the model
ProcessZero == 1

\* what the output location may hold before the processes start
RanksContent == {{}, {Checkpoint(SaveSteps), ModelBin}}

\* the processes train into s3://b/run1 with overwrite_output_dir set, so that
\* the guard of line 454 is false in each of them
InitRanks ==
    /\ pc = "ranks"
    /\ FirstJob
    /\ config_url = None
    /\ output_url = RemoteOut
    /\ do_train = TRUE
    /\ overwrite_output_dir = TRUE
    /\ delete_checkpoints_at_end = FALSE
    /\ resume_from_checkpoint = None
    /\ logging_arg = None
    /\ logging_dir = None
    /\ remote \in {{SiblingObject} \cup upload_folder(c, output_url) : c \in RanksContent}
    /\ cwd = NoFiles
    /\ NothingDone
    /\ ResolveIdle
    /\ rpc = [i \in Ranks |-> "start"]
    /\ rws = [i \in Ranks |-> {}]
    /\ rurls = [i \in Ranks |-> {}]
    /\ rfin = {}
    /\ ruploaded = [i \in Ranks |-> {}]
    /\ clobbered = FALSE

\* lines 440-447 in process i: its own temp directory and download
RankAcquire(i) ==
    /\ rpc[i] = "start"
    /\ get_direct_access(output_url) = None
    /\ rws' = [rws EXCEPT ![i] = download_folder(remote, output_url)]
    /\ rpc' = [rpc EXCEPT ![i] = "train"]
    /\ UNCHANGED <<jobVars, resolveVars, rurls, rfin, ruploaded, clobbered>>

\* lines 769-786 in process i: process zero saves checkpoints and the model
\* into its workspace, the others save nothing
RankTrain(i) ==
    /\ rpc[i] = "train"
    /\ \E made \in SUBSET Checkpoints :
          rws' = [rws EXCEPT ![i] = IF i = ProcessZero THEN @ \cup made \cup {ModelBin}
                                     ELSE @]
    /\ rpc' = [rpc EXCEPT ![i] = "finally"]
    /\ UNCHANGED <<jobVars, resolveVars, rurls, rfin, ruploaded, clobbered>>

\* lines 855-857 in process i: temp_dir is not None, list the output location
RankList(i) ==
    /\ rpc[i] = "finally"
    /\ rfin' = rfin \cup {i}
    /\ rurls' = [rurls EXCEPT ![i] = PrePruneUrls(remote, output_url)]
    /\ rpc' = [rpc EXCEPT ![i] = FinNext("finally")]
    /\ UNCHANGED <<jobVars, resolveVars, rws, ruploaded, clobbered>>

\* lines 858-860 in process i: one iteration that reaches delete_url
RankPrePrune(i) ==
    /\ rpc[i] = "fin_delete"
    /\ \E url \in rurls[i] :
          /\ rurls' = [rurls EXCEPT ![i] = @ \ {url}]
          /\ remote' = delete_url(remote, url)
          /\ clobbered' = (clobbered \/
                              (url \in remote /\
                               \E j \in Ranks \ {i} : url \in ruploaded[j]))
    /\ UNCHANGED <<pc, args, temp_dir, output_dir, tempExists, outputExists, ws,
                   urls, last_checkpoint, exc, history, logging_dir, checkpoint,
                   downloads, finWs, resolveVars, rpc, rws, rfin, ruploaded>>

\* the loop of process i has visited every listed URL
RankPrePruneDone(i) ==
    /\ rpc[i] = "fin_delete"
    /\ rurls[i] = {}
    /\ rpc' = [rpc EXCEPT ![i] = FinNext("fin_delete")]
    /\ UNCHANGED <<jobVars, resolveVars, rws, rurls, rfin, ruploaded, clobbered>>

\* line 861 in process i: upload its workspace
RankUpload(i) ==
    /\ rpc[i] = "fin_upload"
    /\ remote' = remote \cup upload_folder(rws[i], output_url)
    /\ ruploaded' = [ruploaded EXCEPT ![i] = upload_folder(rws[i], output_url)]
    /\ rpc' = [rpc EXCEPT ![i] = FinNext("fin_upload")]
    /\ UNCHANGED <<pc, args, temp_dir, output_dir, tempExists, outputExists, ws,
                   urls, last_checkpoint, exc, history, logging_dir, checkpoint,
                   downloads, finWs, resolveVars, rws, rurls, rfin, clobbered>>

\* line 862 in process i: remove its temp directory
RankRemove(i) ==
    /\ rpc[i] = "fin_rmtree"
    /\ rws' = [rws EXCEPT ![i] = {}]
    /\ rpc' = [rpc EXCEPT ![i] = FinNext("fin_rmtree")]
    /\ UNCHANGED <<jobVars, resolveVars, rurls, rfin, ruploaded, clobbered>>

NextRanks ==
    \E i \in Ranks :
        \/ RankAcquire(i)
        \/ RankTrain(i)
        \/ RankList(i)
        \/ RankPrePrune(i)
        \/ RankPrePruneDone(i)
        \/ RankUpload(i)
        \/ RankRemove(i)

SpecRanks == InitRanks /\ [][NextRanks]_vars

(***************************************************************************)
(* Two jobs, one after the other, on the same remote output location: the  *)
(* second is started once the first has left main().                       *)
(***************************************************************************)
\* the first job is any job of Spec
InitRoundTrip == Init

\* main() is started again with the same remote output location, training
\* requested and overwrite not allowed, no explicit resume target, no pruning
\* at the end and the logging directory /log: a new process, whose local state
\* is that of line 438. The object store is as the first job left it; a temp
\* directory the first job made is not this job's.
NextJob ==
    /\ pc = "done"
    /\ job = "first"
    /\ get_direct_access(output_url) = None
    /\ job' = "following"
    /\ prev' = [trained |-> do_train /\ bodyExc = "none",
                pruning |-> delete_checkpoints_at_end,
                finalized |-> /\ temp_dir # None
                              /\ failedAt = "none"
                              /\ uploaded
                              /\ rmtrees = 1,
                sent |-> IF uploaded THEN sent ELSE {}]
    /\ pc' = "start"
    /\ do_train' = TRUE
    /\ overwrite_output_dir' = FALSE
    /\ delete_checkpoints_at_end' = FALSE
    /\ resume_from_checkpoint' = None
    /\ cwd' \in WorkingDirs(FALSE)
    /\ logging_arg' = <<"/", "l", "o", "g">>
    /\ logging_dir' = logging_arg'
    /\ ws' = {}
    /\ outputExists' = FALSE
    /\ temp_dir' = None
    /\ output_dir' = None
    /\ tempExists' = FALSE
    /\ urls' = {}
    /\ last_checkpoint' = None
    /\ checkpoint' = Unbound
    /\ downloads' = 0
    /\ finWs' = {}
    /\ exc' = "none"
    /\ bodyExc' = "none"
    /\ failedAt' = "none"
    /\ finStarts' = 0
    /\ deletes' = {}
    /\ uploaded' = FALSE
    /\ sent' = {}
    /\ rmtrees' = 0
    /\ pruned' = {}
    /\ UNCHANGED <<output_url, config_url, remote, resolveVars, rankVars>>

NextRoundTrip == Next \/ NextJob

SpecRoundTrip == InitRoundTrip /\ [][NextRoundTrip]_vars

(***************************************************************************)
(* Properties.                                                             *)
(***************************************************************************)
\* the workspace is Mirrored: acquisition created an ephemeral directory
Mirrored == temp_dir # None

\* the workspace is Direct: the output location has direct local access
Direct == get_direct_access(output_url) # None

\* a name of the form <checkpoint-prefix>-<integer>
IsCheckpointEntry(e) == MatchesCheckpointRe(e.name) /\ e.kind = "dir"

\* the checkpoint entries among the objects under the output location
RemoteCheckpoints == {e \in download_folder(remote, output_url) : IsCheckpointEntry(e)}

\* C1: when a finalization step before the directory removal fails (list,
\* delete_url or upload_folder), the error reaches the caller and the
\* ephemeral directory is gone once main() has exited.
C1_TempRemovedWhenFinalizeFails ==
    (pc = "done" /\ failedAt \in {"list", "delete", "upload"})
        => (exc = "StorageError" /\ ~tempExists)

\* C2: once acquisition has completed, a Mirrored job enters finalization
\* exactly once on every exit path of the body, and a Direct job performs no
\* remote delete, no upload and no removal of an ephemeral directory.
C2_FinalizeOncePerJob ==
    /\ finStarts <= 1
    /\ (pc = "done" /\ output_dir # None) => finStarts = (IF Mirrored THEN 1 ELSE 0)
    /\ Direct => (deletes = {} /\ ~uploaded /\ sent = {} /\ rmtrees = 0
                        /\ remote = {SiblingObject})

\* C2 witness: an interrupted Mirrored job whose finalization ran to its end
C2_Witness ==
    /\ pc = "done"
    /\ Mirrored
    /\ bodyExc = "KeyboardInterrupt"
    /\ finStarts = 1
    /\ uploaded
    /\ rmtrees = 1

\* C3: when the body failed and a finalization step fails too, the caller
\* still sees the body's failure.
C3_JobFailureNotMasked ==
    (pc = "done" /\ bodyExc # "none" /\ failedAt \in {"list", "delete", "upload", "rmtree"})
        => exc = bodyExc

\* C4: when download_folder fails during acquisition, the ephemeral directory
\* does not remain on disk when the job has terminated.
C4_TempRemovedWhenDownloadFails ==
    (pc = "done" /\ failedAt = "download") => ~tempExists

\* the case of C5: training requested, overwrite not allowed, the directory
\* exists and holds a regular file but no entry matching the checkpoint pattern
C5_Case ==
    /\ do_train
    /\ ~overwrite_output_dir
    /\ outputExists
    /\ \E e \in ws : e.kind = "file"
    /\ \A e \in ws : ~MatchesCheckpointRe(e.name)

\* C5: in that case resume detection raises the conflict error, whatever the
\* working directory is: control never passes from detection on to the body.
C5_ConflictWhateverCwd == C5_Case => pc # "setup"

\* C6: finalization deletes remote checkpoints only before the upload, and
\* removes the ephemeral directory only after upload_folder has returned.
C6_FinalizeOrder ==
    [][/\ deletes' # deletes => (~uploaded /\ sent = {} /\ rmtrees = 0)
       /\ uploaded' # uploaded => rmtrees = 0
       /\ rmtrees' # rmtrees => uploaded]_vars

\* C6 witness: a finalization that deleted a remote checkpoint, uploaded and
\* removed the ephemeral directory
C6_Witness ==
    /\ pc = "done"
    /\ deletes # {}
    /\ uploaded
    /\ rmtrees = 1
    /\ ~tempExists

\* C7: after a successful finalization the checkpoint entries under the remote
\* output location are exactly those the workspace held at upload time, with
\* or without a trailing slash on the output location.
C7_RemoteCheckpointsMatchLocal ==
    (pc = "done" /\ Mirrored /\ failedAt = "none" /\ uploaded /\ rmtrees = 1)
        => RemoteCheckpoints = {e \in sent : IsCheckpointEntry(e)}

\* C8: an object finalization deleted that belongs to no <prefix>-<integer>
\* entry and is absent from the uploaded workspace does not occur: every such
\* object still exists after a successful finalization.
C8_OnlyCheckpointsDeletedRemotely ==
    (pc = "done" /\ Mirrored /\ failedAt = "none" /\ uploaded)
        => \A u \in deletes :
              \/ \E e \in Universe : IsCheckpointEntry(e) /\ ObjectUrl(output_url, e) = u
              \/ u \in remote

\* C9: local pruning removes only entries named <prefix>-<step number>, and a
\* pruning that ran to its end leaves none of them.
C9_PruneOnlyCheckpoints ==
    /\ \A e \in pruned : IsCheckpointEntry(e)
    /\ (pc = "evaluate" /\ do_train /\ delete_checkpoints_at_end)
          => \A e \in ws : ~IsCheckpointEntry(e)

\* C10: pruning a pruned workspace again changes nothing and finds nothing to
\* delete.
C10_PruneIdempotent ==
    (pc = "evaluate" /\ do_train /\ delete_checkpoints_at_end)
        => (Prune(ws) = ws /\ PruneTargets(ws) = {})

\* C10 witness: a pruning that removed two checkpoints and kept model.bin
C10_Witness ==
    /\ pc = "evaluate"
    /\ do_train
    /\ delete_checkpoints_at_end
    /\ Cardinality(pruned) >= 2
    /\ ModelBin \in ws

\* the workspace holds a checkpoint entry
HasCheckpoint == \E e \in ws : IsCheckpointEntry(e)

\* C11: when training is requested, overwrite is not allowed and the workspace
\* holds one or more checkpoint entries, resume detection selects the entry
\* with the numerically highest step, whatever other entries are present, and
\* does not raise the conflict error.
C11_HighestStepSelected ==
    /\ (pc = "setup" /\ DetectGuard /\ HasCheckpoint) =>
           \E n \in Steps :
               /\ Checkpoint(n) \in ws
               /\ \A m \in Steps : Checkpoint(m) \in ws => m <= n
               /\ last_checkpoint = CheckpointName(n)
    /\ (pc = "finally" /\ finStarts = 0 /\ bodyExc = "ValueError") => ~HasCheckpoint

\* C11: detection has chosen checkpoint-10 over checkpoint-5 in a workspace that
\* also holds a regular file and a directory without a step number
C11_Witness ==
    /\ pc = "setup"
    /\ DetectGuard
    /\ {Checkpoint(SaveSteps), Checkpoint(2 * SaveSteps), ModelBin, CheckpointBest} \subseteq ws
    /\ cwd.at = "output_dir"
    /\ last_checkpoint = CheckpointName(2 * SaveSteps)

\* C12: resume detection ends with no detected checkpoint and no error when
\* training is not requested, or overwrite is allowed, or the workspace
\* directory does not exist or is empty, or it holds nothing but
\* subdirectories that are not checkpoints.
C12_FreshStart ==
    (/\ pc \in {"setup", "finally"}
     /\ finStarts = 0
     /\ \/ ~do_train
        \/ overwrite_output_dir
        \/ ~outputExists
        \/ ws = {}
        \/ \A e \in ws : e.kind = "dir" /\ ~IsCheckpointEntry(e))
    => (last_checkpoint = None /\ bodyExc # "ValueError")

\* C13: the resume target handed to trainer.train is the explicit target
\* whenever one is supplied, the detected checkpoint only when none is
\* supplied, and no target when neither exists.
C13_ExplicitTargetFirst ==
    checkpoint # Unbound =>
        /\ resume_from_checkpoint # None => checkpoint = resume_from_checkpoint
        /\ (resume_from_checkpoint = None /\ last_checkpoint # None) =>
               checkpoint = last_checkpoint
        /\ (resume_from_checkpoint = None /\ last_checkpoint = None) =>
               checkpoint = None

\* C13: train was called with the explicit target although detection had found
\* a checkpoint
C13_Witness ==
    /\ checkpoint = ExplicitTarget
    /\ last_checkpoint = CheckpointName(2 * SaveSteps)
    /\ pc = "evaluate"

\* the output location is one the local file system serves: a plain path or a
\* file:// URL
LocalLocation == urlparse(output_url).scheme \in {<<>>, FileScheme}

\* C14: acquisition gives a Direct workspace (the local path itself, no
\* ephemeral directory, no download) exactly when the output location has
\* direct local access; otherwise it creates the ephemeral directory, downloads
\* the output location into it before detection and the job steps, and works
\* in <ephemeral directory>/<path component of the output location>.
C14_Acquisition ==
    pc # "start" =>
        IF LocalLocation
        THEN /\ temp_dir = None
             /\ ~tempExists
             /\ downloads = 0
             /\ output_dir = output_url
        ELSE /\ temp_dir = TempDir
             /\ pc \in BodyPcs =>
                   /\ downloads = 1
                   /\ tempExists
                   /\ output_dir = TempDir \o urlparse(output_url).path
             /\ pc = "detect" => ws = download_folder(remote, output_url)

\* C14: a Mirrored workspace right after acquisition, holding what the remote
\* location held
C14_Witness ==
    /\ pc = "detect"
    /\ output_url = RemoteOut
    /\ output_dir = TempDir \o <<"/", "r", "u", "n", "1">>
    /\ {Checkpoint(SaveSteps), ModelBin} \subseteq ws
    /\ downloads = 1

\* a target that is absolute: it names a scheme ("...://") or starts at the
\* root of the file system
AbsoluteTarget(t) ==
    \/ Len(t) > 0 /\ t[1] = "/"
    \/ \E i \in 2..(Len(t) - 2) : SubSeq(t, i, i + 2) = <<":", "/", "/">>

\* the origin is a local file: conform_url gave it the file scheme
LocalOrigin(o) == o # None /\ StartsWith(o, <<"f", "i", "l", "e", ":", "/", "/">>)

\* the directory that holds the local file p, and a path below a directory
ParentDir(p) == IF RFind(p, "/") = 1 THEN <<"/">> ELSE Take(p, RFind(p, "/") - 1)
Below(dir, t) == IF dir[Len(dir)] = "/" THEN dir \o t ELSE dir \o <<"/">> \o t

\* the four-case rule for one target
Expected(o, t) ==
    IF AbsoluteTarget(t) \/ o = None THEN t
    ELSE IF LocalOrigin(o) THEN Below(ParentDir(Drop(o, 7)), t)
    ELSE Take(o, RFind(o, "/")) \o t

\* C15: make_absolute follows the four-case rule for a string and, element by
\* element and in order, for a list: an absolute target and any target without
\* an origin are returned unchanged, a relative target is joined to the parent
\* directory of a local origin, or appended to a remote origin's text up to and
\* including its last "/".
C15_FourCaseRule ==
    resolved # NoTarget =>
        /\ resolved.kind = path.kind
        /\ path.kind = "str" => resolved.val = Expected(config_url, path.val)
        /\ path.kind = "list" =>
               /\ Len(resolved.val) = Len(path.val)
               /\ \A k \in 1..Len(path.val) :
                      resolved.val[k] = Expected(config_url, path.val[k])

\* C15: a list of a relative and an absolute target resolved against the remote
\* origin s3://b/d/cfg.json: s3://b/d/x and /a/x, in that order
C15_Witness ==
    /\ config_url = <<"s", "3", ":", "/", "/", "b", "/", "d", "/",
                      "c", "f", "g", ".", "j", "s", "o", "n">>
    /\ path = List(<<(<<"x">>), (<<"/", "a", "/", "x">>)>>)
    /\ resolved = List(<<(<<"s", "3", ":", "/", "/", "b", "/", "d", "/", "x">>),
                         (<<"/", "a", "/", "x">>)>>)

\* C16: resolving a resolved target again, against the same origin, gives the
\* same result, for strings and lists and for every origin (none, local,
\* remote).
C16_ResolveIdempotent ==
    resolvedAgain # NoTarget => resolvedAgain = resolved

\* C16: a relative target that resolution changed and a second resolution left
\* alone, against a local origin
C16_Witness ==
    /\ resolvedAgain # NoTarget
    /\ LocalOrigin(config_url)
    /\ path = Str(<<"d", "/", "x">>)
    /\ resolved # path
    /\ resolvedAgain = resolved

\* C17: when several processes run the job against one remote output location,
\* only one of them performs the pre-prune and upload sequence, and no
\* process's pre-prune deletes a checkpoint another process has uploaded.
C17_SingleCoordinator ==
    /\ Cardinality(rfin) <= 1
    /\ ~clobbered

\* l names the directory out or a path below it
SubPath(l, out) == l = StripSlash(out) \/ StartsWith(l, StripSlash(out) \o <<"/">>)

\* C18: a logging directory given as a sub-path of the output directory is
\* rewritten at acquisition to the workspace path followed by the same
\* relative suffix; one that is not a sub-path, even if its text starts with the
\* output directory's, is left as given.
C18_LoggingDirRewrite ==
    (pc # "start" /\ output_dir # None) =>
        logging_dir = IF SubPath(logging_arg, output_url)
                      THEN StripSlash(output_dir)
                               \o Drop(logging_arg, Len(StripSlash(output_url)))
                      ELSE logging_arg

\* C19: from its creation until the last step of the finally block the
\* ephemeral directory exists; only acquisition creates it and only the
\* rmtree of the finally block removes it; local pruning leaves the ephemeral
\* directory and the workspace directory in place.
C19_TempDirLifetime ==
    [][/\ (temp_dir' # None /\ pc' # "done") => tempExists'
       /\ tempExists' # tempExists =>
              \/ pc = "start" /\ tempExists'
              \/ pc = "fin_rmtree" /\ ~tempExists'
       /\ pc = "prune" =>
              /\ tempExists' = tempExists
              /\ outputExists' = outputExists
              /\ ws' \subseteq ws]_vars

\* C19: local pruning has removed entries of a Mirrored workspace, whose
\* directories are still there
C19_Witness ==
    /\ pc = "evaluate"
    /\ Mirrored
    /\ Checkpoint(SaveSteps) \in pruned
    /\ tempExists
    /\ outputExists

\* C20: whatever the outcome of the finally block of a Mirrored workspace
\* (success, or failure at list, delete_url, upload_folder or rmtree), every
\* checkpoint entry the workspace held when the block started is afterwards
\* in the remote output location or still in the workspace; and the ephemeral
\* directory is removed only after the upload has completed.
C20_NoCheckpointLost ==
    /\ finStarts >= 1 =>
           \A e \in finWs :
               IsCheckpointEntry(e) =>
                   e \in ws \/ ObjectUrl(output_url, e) \in remote
    /\ (temp_dir # None /\ ~tempExists) => uploaded

\* C20: a finally block that deleted stale remote checkpoints, uploaded the
\* workspace and removed the temp directory; the checkpoint it started with is
\* in the remote location
C20_Witness ==
    /\ pc = "done"
    /\ finStarts = 1
    /\ deletes # {}
    /\ uploaded
    /\ ~tempExists
    /\ Checkpoint(2 * SaveSteps) \in finWs
    /\ ObjectUrl(output_url, Checkpoint(2 * SaveSteps)) \in remote
    /\ ws = {}

\* the earlier job, which was not to prune its checkpoints, left main() after a
\* finally block that listed, pre-pruned,
\* uploaded and removed its temp directory without an error, and its workspace
\* held a checkpoint entry when it was uploaded
EarlierJobKeptCheckpoint ==
    /\ job = "following"
    /\ ~prev.pruning
    /\ prev.finalized
    /\ \E e \in prev.sent : IsCheckpointEntry(e)

\* C21: after a job on a Mirrored workspace has trained, kept its checkpoints
\* and finalized successfully, a following job with the same remote output
\* location, training requested and overwrite not allowed, downloads a
\* workspace that holds the earlier job's checkpoints, and resume detection
\* selects the one with the highest step without raising the conflict error.
C21_ResumeRoundTrip ==
    EarlierJobKeptCheckpoint =>
        /\ pc = "detect" =>
               {e \in ws : IsCheckpointEntry(e)} = {e \in prev.sent : IsCheckpointEntry(e)}
        /\ pc = "setup" =>
               \E n \in Steps :
                   /\ Checkpoint(n) \in prev.sent
                   /\ \A m \in Steps : Checkpoint(m) \in prev.sent => m <= n
                   /\ last_checkpoint = CheckpointName(n)
        /\ (pc = "finally" /\ finStarts = 0) => bodyExc # "ValueError"

\* C21: the following job has selected checkpoint-10, which the earlier job
\* uploaded next to checkpoint-5 and model.bin
C21_Witness ==
    /\ EarlierJobKeptCheckpoint
    /\ prev.trained
    /\ pc = "setup"
    /\ {Checkpoint(SaveSteps), Checkpoint(2 * SaveSteps), ModelBin} \subseteq prev.sent
    /\ last_checkpoint = CheckpointName(2 * SaveSteps)

====
